---- MODULE Spec2Model ----
(***************************************************************************)
(* A model of contrib/basic_archive/basic_archive.c: _PG_archive() copies  *)
(* a file to a reserved temporary name and durably renames it to its final *)
(* name.  The file system is modelled with a volatile view (what running   *)
(* processes see) and a durable view (what stable storage holds), so that  *)
(* a crash can lose whatever was not flushed.  Every system call may fail. *)
(* A name is looked up as the file system does it: a name below a regular  *)
(* file gives ENOTDIR, and a directory can be opened but not read.         *)
(*                                                                         *)
(* Lines 100-101 compose destination and temp below path, the file that is *)
(* copied, so that with path a regular file the stat of line 107 fails,    *)
(* with no file at path the open of line 164 does, and with path a         *)
(* directory the read of line 184 does.  No invocation gets further: the   *)
(* steps after a read that succeeded are translated below (Beyond) and are *)
(* steps of no behaviour, which the invariant NothingBeyond states.        *)
(*                                                                         *)
(* File contents are sequences of extents [org, lo, hi]: the bytes lo..hi-1*)
(* of the original contents named org.  Adjacent extents of one origin are *)
(* merged, so two contents are the same bytes when they are equal.         *)
(*                                                                         *)
(* Spec is one archiver process with crashes; SpecRun and SpecStale are    *)
(* the same process without crashes (as it is; with a temporary file left  *)
(* by an earlier attempt); SpecRace is two processes;                      *)
(* SpecPathLength is the entry of _PG_archive on paths around the length   *)
(* limit.  SpecPopcount is src/port/pg_popcount_avx512.c, which shares no  *)
(* state with the archiver.                                                *)
(***************************************************************************)
EXTENDS Integers, Sequences, FiniteSets, TLC

(* ------------------------------ bounds -------------------------------- *)

\* invocations of _PG_archive begun in one behaviour
MaxCalls == 3
\* crashes (power loss or process termination) in one behaviour
MaxCrashes == 2
\* the largest source file is MaxChunks whole buffers plus one byte
MaxChunks == 2
\* pg_popcount_avx512 is given up to MaxBlocks whole vector blocks and a rest
MaxBlocks == 2
\* path and file lengths are taken up to MaxSlack characters around the
\* lengths at which the path-length check changes its answer
MaxSlack == 3

(* ------------------------- program constants --------------------------- *)

\* MAXPGPATH sizes destination[] and temp[] and bounds the length check
MAXPGPATH == 1024

COPY_BUF_SIZE == 64 * 1024

TEMP_FILE_NAME == "archtemp"

(* ------------------------------ inputs --------------------------------- *)

RECURSIVE Rep(_, _)
Rep(s, n) ==
    IF n = 0 THEN ""
    ELSE LET h == Rep(s, n \div 2)
         IN  IF n % 2 = 0 THEN h \o h ELSE h \o h \o s

\* the file to archive, a regular file
ShortPath == "pg_wal/seg1"
\* a path at which there is no file
AbsentPath == "pg_wal/seg0"
\* the shortest path that the length check of line 93 rejects with these
\* file names
LongPath == Rep("d", MAXPGPATH - 10)

FileNames == {"seg1", "seg2"}
\* values of basic_archive.archive_directory: unset, or a directory
ArchiveDirs == {"", "/tmp/arch"}
\* the directories of the tree a request may name
Directories == ArchiveDirs \ {""}
\* the paths _PG_archive is called with: the file, a path with no file, a
\* directory, a long path
Paths == {ShortPath, AbsentPath, LongPath} \cup Directories

\* paths of the lengths around the longest one the check lets through with a
\* file name no longer than TEMP_FILE_NAME, and one character more
BoundaryPaths ==
    {Rep("d", MAXPGPATH - Len(TEMP_FILE_NAME) - 2 + k) : k \in (0 - MaxSlack)..1}
\* file names shorter than TEMP_FILE_NAME, as long, and longer
BoundaryFiles ==
    {"seg1"} \cup {Rep("f", Len(TEMP_FILE_NAME) + k) : k \in 0..MaxSlack}

SrcSizes ==
    {0, 1, COPY_BUF_SIZE} \cup {k * COPY_BUF_SIZE : k \in 2..MaxChunks}
        \cup {MaxChunks * COPY_BUF_SIZE + 1}

Procs == {1, 2}

(* ------------------------------ paths ---------------------------------- *)

Max(a, b) == IF a > b THEN a ELSE b
Min(a, b) == IF a < b THEN a ELSE b

strlen(s) == Len(s)

\* snprintf(out, size, "%s/%s", a, b): at most size - 1 characters are kept
Snprintf(size, a, b) ==
    LET s == a \o "/" \o b
    IN  IF Len(s) <= size - 1 THEN s ELSE SubSeq(s, 1, size - 1)

\* line 100: the final path, composed below path
Destination(path, file) == Snprintf(MAXPGPATH, path, file)

\* the copy written under the name of the first segment
Temp_final(path) == Snprintf(MAXPGPATH, path, "seg1")

\* the copy written under the name of the file that is read
Temp_source(path) == path

\* line 101: the temporary path, composed below path
Temp(path) == Snprintf(MAXPGPATH, path, TEMP_FILE_NAME)

\* copy_file(path, temp, buf): the file opened for reading
Source(path) == path

DirNotSpecified(d) == d = ""

PathTooLong(path, file) ==
    strlen(path) + Max(strlen(file), strlen(TEMP_FILE_NAME)) + 2 >= MAXPGPATH

\* the paths names are composed below, and every name of the file system
DirNames == {ShortPath, AbsentPath} \cup Directories
BaseNames == FileNames \cup {TEMP_FILE_NAME}
FsNames == DirNames \cup {d \o "/" \o b : d \in DirNames, b \in BaseNames}

\* the path a name is looked up in
ParentOf(n) ==
    IF \E d \in DirNames, b \in BaseNames : n = d \o "/" \o b
    THEN CHOOSE d \in DirNames : \E b \in BaseNames : n = d \o "/" \o b
    ELSE IF n \in {ShortPath, AbsentPath} THEN "pg_wal" ELSE "/tmp"

(* ----------------------------- contents -------------------------------- *)

Ext(org, lo, hi) == [org |-> org, lo |-> lo, hi |-> hi]

RECURSIVE NBytes(_)
NBytes(c) == IF c = << >> THEN 0 ELSE (c[1].hi - c[1].lo) + NBytes(Tail(c))

\* c followed by d, both in merged form
Cat(c, d) ==
    IF c = << >> THEN d
    ELSE IF d = << >> THEN c
    ELSE LET a == c[Len(c)]
             b == d[1]
         IN  IF a.org = b.org /\ a.hi = b.lo
             THEN SubSeq(c, 1, Len(c) - 1) \o <<Ext(a.org, a.lo, b.hi)>> \o Tail(d)
             ELSE c \o d

RECURSIVE Take(_, _)
Take(c, k) ==
    IF k <= 0 \/ c = << >> THEN << >>
    ELSE LET e == c[1]
             l == e.hi - e.lo
         IN  IF l <= k THEN <<e>> \o Take(Tail(c), k - l)
             ELSE <<Ext(e.org, e.lo, e.lo + k)>>

RECURSIVE Drop(_, _)
Drop(c, k) ==
    IF c = << >> THEN << >>
    ELSE IF k <= 0 THEN c
    ELSE LET e == c[1]
             l == e.hi - e.lo
         IN  IF l <= k THEN Drop(Tail(c), k - l)
             ELSE <<Ext(e.org, e.lo + k, e.hi)>> \o Tail(c)

Slice(c, off, n) == Take(Drop(c, off), n)

Whole(org, size) == IF size = 0 THEN << >> ELSE <<Ext(org, 0, size)>>

(* ------------------------------- state --------------------------------- *)

VARIABLES
    archive_directory,  \* the setting basic_archive.archive_directory
    dir,                \* name -> inode (0: no such file), as processes see it
    ddir,               \* name -> inode on stable storage
    data,               \* inode -> contents, as processes see them
    ddata,              \* inode -> contents on stable storage
    pc,                 \* process -> its position in _PG_archive / copy_file
    args,               \* process -> [path, file] of its invocation
    destination,        \* process -> the local destination[] of _PG_archive
    temp,               \* process -> the local temp[] of _PG_archive
    srcfd,              \* process -> inode open as srcfd, -1 when not open
    dstfd,              \* process -> inode open as dstfd, -1 when not open
    leaked,             \* process -> inode -> descriptors earlier invocations
                        \*            of the process left open
    offset,             \* process -> file position of srcfd
    nbytes,             \* process -> result of the last read()
    buf,                \* process -> the bytes the last read() put in buf
    warning,            \* process -> the WARNING reported last
    result,             \* process -> outcome of its last invocation
    events,             \* process -> log of the steps of its invocation
    pre,                \* process -> dir when its invocation began
    prev,               \* process -> how its previous invocation ended
    callno,             \* process -> number of its invocation
    calls,              \* invocations begun
    crashes,            \* crashes so far
    committed,          \* destinations for which success was returned
    pop_pc,             \* position in pg_popcount_avx512
    pop_buf,            \* the bytes its argument buf points into
    pop_off,            \* how far buf has been advanced
    bytes,              \* its argument bytes, counted down by the loop
    pop_len,            \* the value of bytes it was called with
    accum,              \* its eight 64-bit lanes of accum
    popcnt,             \* its local popcnt
    pop_ret             \* the value it returned

\* the state of the archiver, which no step of pg_popcount_avx512 touches
archvars == <<archive_directory, dir, ddir, data, ddata, pc, args, destination,
              temp, srcfd, dstfd, leaked, offset, nbytes, buf, warning, result,
              events, pre, prev, callno, calls, crashes, committed>>

\* the state of pg_popcount_avx512, which no step of the archiver touches
popvars == <<pop_pc, pop_buf, pop_off, bytes, pop_len, accum, popcnt, pop_ret>>

vars == <<archvars, popvars>>

fsvars == <<dir, ddir, data, ddata>>
fdvars == <<srcfd, dstfd, leaked, offset, nbytes, buf>>
\* the arguments and the composed paths of the invocations
argvars == <<args, destination, temp>>
histvars == <<pre, prev, callno, calls, crashes, committed>>

\* inode 1 is the source file, inode 2 a temporary file left by an earlier
\* attempt, inode 3 the directory, inode 4 a file archived earlier, inode
\* 4 + n the temporary file created by invocation n
Inodes == 1..(4 + MaxCalls)
NewIno(p) == 4 + callno[p]

IsDirectory(i) == i = 3

\* the inodes that have a name, in either view, or are open in a process, by
\* a descriptor of its invocation or by one an earlier invocation left open
Live(d, dd, sf, df) ==
    {d[n] : n \in FsNames} \cup {dd[n] : n \in FsNames}
        \cup {sf[p] : p \in Procs} \cup {df[p] : p \in Procs}
        \cup {i \in Inodes : \E p \in Procs : leaked[p][i] > 0}

\* the contents x once the file system has freed every inode not in live
Collect(x, live) == [i \in Inodes |-> IF i \in live THEN x[i] ELSE << >>]

\* errno values a failing call may leave, besides the ones its outcome fixes
InjectedErrnos == {"EIO"}

NoWarning == [msg |-> "none", errno |-> "0"]

\* the file system before the first invocation: the source, the directory,
\* and in it, when st, a temporary file an earlier attempt left and, when
\* old, a file archived earlier under the name of the first segment
InitWith(ps, sizes, stale, archived) ==
    /\ archive_directory \in ArchiveDirs
    /\ \E size \in sizes, st \in stale, old \in archived :
        /\ dir = [n \in FsNames |->
                    IF n = ShortPath THEN 1
                    ELSE IF n \in Directories THEN 3
                    ELSE IF st /\ n \in {Temp(d) : d \in Directories} THEN 2
                    ELSE IF old /\ n \in {Destination(d, "seg1") : d \in Directories} THEN 4
                    ELSE 0]
        /\ data = [i \in Inodes |->
                    IF i = 1 THEN Whole(ShortPath, size)
                    ELSE IF st /\ i = 2 THEN Whole("stale", COPY_BUF_SIZE + 1)
                    ELSE IF old /\ i = 4 THEN Whole("old", 1)
                    ELSE << >>]
    /\ ddir = dir
    /\ ddata = data
    /\ pc = [p \in Procs |-> IF p \in ps THEN "idle" ELSE "off"]
    /\ args = [p \in Procs |-> [path |-> ShortPath, file |-> "seg1"]]
    /\ destination = [p \in Procs |-> ""]
    /\ temp = [p \in Procs |-> ""]
    /\ srcfd = [p \in Procs |-> -1]
    /\ dstfd = [p \in Procs |-> -1]
    /\ leaked = [p \in Procs |-> [i \in Inodes |-> 0]]
    /\ offset = [p \in Procs |-> 0]
    /\ nbytes = [p \in Procs |-> 0]
    /\ buf = [p \in Procs |-> << >>]
    /\ warning = [p \in Procs |-> NoWarning]
    /\ result = [p \in Procs |-> "none"]
    /\ events = [p \in Procs |-> << >>]
    /\ pre = [p \in Procs |-> dir]
    /\ prev = [p \in Procs |-> [result |-> "none", phase |-> "none", same |-> FALSE]]
    /\ callno = [p \in Procs |-> 0]
    /\ calls = 0
    /\ crashes = 0
    /\ committed = {}

\* pg_popcount_avx512 is not called
PopcountNotCalled ==
    /\ pop_pc = "off"
    /\ pop_buf = << >>
    /\ pop_off = 0
    /\ bytes = 0
    /\ pop_len = 0
    /\ accum = << >>
    /\ popcnt = 0
    /\ pop_ret = 0

\* one archiver process; the source may have any of the sizes
Init == InitWith({1}, SrcSizes, {FALSE}, BOOLEAN) /\ PopcountNotCalled

(* ------------------------ steps common to actions ----------------------- *)

\* a step of the invocation: the call made, whether it succeeded, and whether
\* its failure was one the environment injected (not one the state decides)
Ev(op, ok, inj) == [op |-> op, ok |-> ok, inj |-> inj]

Log(p, op, ok) == events' = [events EXCEPT ![p] = Append(@, Ev(op, ok, FALSE))]

Fault(p, op) == events' = [events EXCEPT ![p] = Append(@, Ev(op, FALSE, TRUE))]

\* the step the invocation of p made last
LastOp(p) == IF events[p] = << >> THEN "none" ELSE events[p][Len(events[p])].op

\* the part of _PG_archive a step belongs to: the preconditions, copy_file,
\* durable_rename up to the rename, durable_rename after the rename
Phase(op) ==
    IF op \in {"config", "pathlen", "stat", "unlink"} THEN "pre"
    ELSE IF op \in {"open_src", "open_dst", "read", "eof", "write", "close_dst", "close_src"}
    THEN "copy"
    ELSE IF op \in {"fsync_temp", "rename"} THEN "commit"
    ELSE IF op \in {"fsync_new", "fsync_dir"} THEN "renamed"
    ELSE "none"

\* ereport(WARNING, ...) followed by return false
ReturnFalse(p, msg, en) ==
    /\ pc' = [pc EXCEPT ![p] = "idle"]
    /\ result' = [result EXCEPT ![p] = "failure"]
    /\ warning' = [warning EXCEPT ![p] = [msg |-> msg, errno |-> en]]

Goto(p, next) ==
    /\ pc' = [pc EXCEPT ![p] = next]
    /\ UNCHANGED <<result, warning>>

\* the descriptors of p that are open and that no invocation will close:
\* those left open before, and those the invocation that has returned holds
Leak(p) ==
    [i \in Inodes |-> leaked[p][i] + (IF srcfd[p] = i THEN 1 ELSE 0)
                                    + (IF dstfd[p] = i THEN 1 ELSE 0)]

\* entry of _PG_archive(path, file): the locals are fresh, and destination
\* and temp come to hold dst and tmp; nothing is closed, so what the last
\* invocation left open stays open in the process
Enter(p, path, file, dst, tmp) ==
    /\ pc[p] = "idle"
    /\ calls < MaxCalls
    /\ calls' = calls + 1
    /\ callno' = [callno EXCEPT ![p] = calls + 1]
    /\ args' = [args EXCEPT ![p] = [path |-> path, file |-> file]]
    /\ destination' = [destination EXCEPT ![p] = dst]
    /\ temp' = [temp EXCEPT ![p] = tmp]
    /\ pre' = [pre EXCEPT ![p] = dir]
    /\ leaked' = [leaked EXCEPT ![p] = Leak(p)]
    /\ srcfd' = [srcfd EXCEPT ![p] = -1]
    /\ dstfd' = [dstfd EXCEPT ![p] = -1]
    /\ offset' = [offset EXCEPT ![p] = 0]
    /\ nbytes' = [nbytes EXCEPT ![p] = 0]
    /\ buf' = [buf EXCEPT ![p] = Whole("uninit", COPY_BUF_SIZE)]
    /\ prev' = [prev EXCEPT ![p] =
                    [result |-> result[p], phase |-> Phase(LastOp(p)),
                     same |-> /\ args[p] = [path |-> path, file |-> file]
                              /\ destination[p] = dst
                              /\ temp[p] = tmp]]
    /\ UNCHANGED <<popvars, archive_directory, fsvars, crashes, committed>>

(* ----------------------------- _PG_archive ------------------------------ *)

\* lines 84-89: archive_directory is not set
NotConfigured(p, path, file) ==
    /\ DirNotSpecified(archive_directory)
    /\ Enter(p, path, file, "", "")
    /\ events' = [events EXCEPT ![p] = <<Ev("config", FALSE, FALSE)>>]
    /\ ReturnFalse(p, "archive_directory not specified", "0")

\* lines 93-98: the composed paths would not fit
TooLong(p, path, file) ==
    /\ ~DirNotSpecified(archive_directory)
    /\ PathTooLong(path, file)
    /\ Enter(p, path, file, "", "")
    /\ events' = [events EXCEPT ![p] = <<Ev("pathlen", FALSE, FALSE)>>]
    /\ ReturnFalse(p, "archive destination path too long", "0")

\* lines 100-101: both checks passed, and line 107 is reached with
\* destination and temp composed below path
Start(p, path, file) ==
    /\ ~DirNotSpecified(archive_directory)
    /\ ~PathTooLong(path, file)
    /\ Enter(p, path, file, Destination(path, file), Temp(path))
    /\ events' = [events EXCEPT ![p] = << >>]
    /\ pc' = [pc EXCEPT ![p] = "stat"]
    /\ result' = [result EXCEPT ![p] = "running"]
    /\ warning' = [warning EXCEPT ![p] = NoWarning]

ArchiveNotConfigured(p) ==
    \E path \in Paths, file \in FileNames : NotConfigured(p, path, file)

ArchivePathTooLong(p) ==
    \E path \in Paths, file \in FileNames : TooLong(p, path, file)

ArchiveStart(p) ==
    \E path \in Paths, file \in FileNames : Start(p, path, file)

src(p) == Source(args[p].path)

\* how the lookup of the name n ends before its last component is looked at:
\* "0" when n is looked up in a directory
Lookup(n) ==
    IF ParentOf(n) \notin FsNames THEN "0"
    ELSE IF dir[ParentOf(n)] = 0 THEN "ENOENT"
    ELSE IF ~IsDirectory(dir[ParentOf(n)]) THEN "ENOTDIR"
    ELSE "0"

\* what stat(n) may return: 0 when the file exists, or -1 with an errno
StatResults(n) ==
    (IF Lookup(n) # "0" THEN {[rc |-> -1, errno |-> Lookup(n)]}
     ELSE IF dir[n] # 0 THEN {[rc |-> 0, errno |-> "0"]}
     ELSE {[rc |-> -1, errno |-> "ENOENT"]})
        \cup {[rc |-> -1, errno |-> en] : en \in InjectedErrnos}

\* the existence check left out
AlreadyArchived_never(rc) == FALSE

\* line 107: the file has already been archived
AlreadyArchived(rc) == rc = 0

\* a stat failure let through to the unlink
StatFailed_never(en) == FALSE

\* line 114: stat failed for another reason than the file's absence
StatFailed(en) == en # "ENOENT"

\* lines 107-121: stat(destination)
StatDestination(p) ==
    /\ pc[p] = "stat"
    /\ \E r \in StatResults(destination[p]) :
          /\ IF r.errno \in InjectedErrnos THEN Fault(p, "stat") ELSE Log(p, "stat", r.rc = 0)
          /\ IF AlreadyArchived(r.rc)
             THEN ReturnFalse(p, "archive file already exists", "0")
             ELSE IF StatFailed(r.errno)
             THEN ReturnFalse(p, "could not stat file", r.errno)
             ELSE Goto(p, "unlink")
    /\ UNCHANGED <<popvars, archive_directory, fsvars, argvars, fdvars, histvars>>

\* what unlink(n) may return: 0 when it removed the name, or -1 with an errno
UnlinkResults(n) ==
    (IF Lookup(n) # "0" THEN {[rc |-> -1, errno |-> Lookup(n)]}
     ELSE IF IsDirectory(dir[n]) THEN {[rc |-> -1, errno |-> "EISDIR"]}
     ELSE IF dir[n] # 0 THEN {[rc |-> 0, errno |-> "0"]}
     ELSE {[rc |-> -1, errno |-> "ENOENT"]})
        \cup {[rc |-> -1, errno |-> en] : en \in InjectedErrnos}

\* the absence of the file taken as a failure too
UnlinkFailed_enoent(rc, en) == rc # 0

\* line 126: the unlink failed, and not because there was no such file
UnlinkFailed(rc, en) == rc # 0 /\ en # "ENOENT"

\* line 126: the path that is unlinked
UnlinkTarget(p) == temp[p]

\* lines 126-133: unlink(temp)
UnlinkTemp(p) ==
    /\ pc[p] = "unlink"
    /\ \E r \in UnlinkResults(UnlinkTarget(p)) :
          /\ dir' = IF r.rc = 0 THEN [dir EXCEPT ![UnlinkTarget(p)] = 0] ELSE dir
          /\ data' = Collect(data, Live(dir', ddir, srcfd, dstfd))
          /\ ddata' = Collect(ddata, Live(dir', ddir, srcfd, dstfd))
          /\ IF r.errno \in InjectedErrnos THEN Fault(p, "unlink") ELSE Log(p, "unlink", r.rc = 0)
          /\ IF UnlinkFailed(r.rc, r.errno)
             THEN ReturnFalse(p, "could not unlink file", r.errno)
             ELSE Goto(p, "open_src")
    /\ UNCHANGED <<popvars, archive_directory, ddir, argvars, fdvars, histvars>>

(* ------------------------------ copy_file ------------------------------- *)

\* line 193: the loop ends when read() returned 0
LoopDone(n) == n = 0

\* line 197: the write is taken as failed unless it wrote the whole chunk
WriteFailed(written, n) == written # n

\* line 200: errno after a failed write
WriteErrno(en) == IF en = "0" THEN "ENOSPC" ELSE en

\* lines 142-154: where _PG_archive goes when copy_file has returned
AfterCopyFile(copied) == IF copied THEN "fsync_temp" ELSE "idle"

\* copy_file returns false after a WARNING
CopyFailed(p, msg, en) ==
    /\ pc' = [pc EXCEPT ![p] = AfterCopyFile(FALSE)]
    /\ result' = [result EXCEPT ![p] =
                    IF AfterCopyFile(FALSE) = "idle" THEN "failure" ELSE @]
    /\ warning' = [warning EXCEPT ![p] = [msg |-> msg, errno |-> en]]

\* lines 164-171: srcfd = OpenTransientFile(src, O_RDONLY)
OpenSrc(p) ==
    /\ pc[p] = "open_src"
    /\ \/ /\ dir[src(p)] # 0
          /\ srcfd' = [srcfd EXCEPT ![p] = dir[src(p)]]
          /\ offset' = [offset EXCEPT ![p] = 0]
          /\ Log(p, "open_src", TRUE)
          /\ Goto(p, "open_dst")
       \/ \E en \in (IF dir[src(p)] = 0 THEN {"ENOENT"} ELSE InjectedErrnos) :
          /\ IF en \in InjectedErrnos THEN Fault(p, "open_src") ELSE Log(p, "open_src", FALSE)
          /\ CopyFailed(p, "could not open file", en)
          /\ UNCHANGED <<srcfd, offset>>
    /\ UNCHANGED <<popvars, archive_directory, fsvars, argvars, leaked, dstfd, nbytes, buf, histvars>>

\* O_EXCL left out: the open goes through whether or not the file exists
CanCreate_any(exists) == TRUE

\* line 173: with O_CREAT | O_EXCL the open creates the file, and only when
\* there is none
CanCreate(exists) == ~exists

\* lines 173-180: dstfd = OpenTransientFile(dst, O_RDWR | O_CREAT | O_EXCL)
OpenDst(p) ==
    /\ pc[p] = "open_dst"
    /\ \/ /\ Lookup(temp[p]) = "0"
          /\ CanCreate(dir[temp[p]] # 0)
          /\ dir' = [dir EXCEPT ![temp[p]] = NewIno(p)]
          /\ data' = [data EXCEPT ![NewIno(p)] = << >>]
          /\ ddata' = [ddata EXCEPT ![NewIno(p)] = << >>]
          /\ dstfd' = [dstfd EXCEPT ![p] = NewIno(p)]
          /\ Log(p, "open_dst", TRUE)
          /\ Goto(p, "read")
       \/ \E en \in (IF Lookup(temp[p]) # "0" THEN {Lookup(temp[p])}
                     ELSE IF dir[temp[p]] # 0 THEN {"EEXIST"}
                     ELSE InjectedErrnos) :
          /\ IF en \in InjectedErrnos THEN Fault(p, "open_dst") ELSE Log(p, "open_dst", FALSE)
          /\ CopyFailed(p, "could not open file", en)
          /\ UNCHANGED <<dir, data, ddata, dstfd>>
    /\ UNCHANGED <<popvars, archive_directory, ddir, argvars, leaked, srcfd, offset, nbytes, buf, histvars>>

\* what read(srcfd, buf, COPY_BUF_SIZE) returns when it does not fail
ReadCount(p) == Min(COPY_BUF_SIZE, NBytes(data[srcfd[p]]) - offset[p])

\* lines 184-194: nbytes = read(srcfd, buf, COPY_BUF_SIZE)
ReadChunk(p) ==
    /\ pc[p] = "read"
    /\ \/ /\ ~IsDirectory(srcfd[p])
          /\ nbytes' = [nbytes EXCEPT ![p] = ReadCount(p)]
          /\ buf' = [buf EXCEPT ![p] =
                        Cat(Slice(data[srcfd[p]], offset[p], ReadCount(p)),
                            Drop(@, ReadCount(p)))]
          /\ offset' = [offset EXCEPT ![p] = @ + ReadCount(p)]
          /\ Log(p, IF ReadCount(p) = 0 THEN "eof" ELSE "read", TRUE)
          /\ Goto(p, IF LoopDone(ReadCount(p)) THEN "close_dst" ELSE "write")
       \/ \E en \in (IF IsDirectory(srcfd[p]) THEN {"EISDIR"} ELSE InjectedErrnos) :
          /\ nbytes' = [nbytes EXCEPT ![p] = -1]
          /\ IF en \in InjectedErrnos THEN Fault(p, "read") ELSE Log(p, "read", FALSE)
          /\ CopyFailed(p, "could not read file", en)
          /\ UNCHANGED <<buf, offset>>
    /\ UNCHANGED <<popvars, archive_directory, fsvars, argvars, leaked, srcfd, dstfd, histvars>>

\* what write(dstfd, buf, n) may return: the whole chunk, less, or -1
WriteResults(n) == {n, n - 1, 0, -1}

\* lines 196-206: write(dstfd, buf, nbytes)
WriteChunk(p) ==
    /\ pc[p] = "write"
    /\ \E w \in WriteResults(nbytes[p]) :
       \E en \in (IF w < 0 THEN InjectedErrnos ELSE {"0"}) :
          /\ data' = [data EXCEPT ![dstfd[p]] = Cat(@, Take(buf[p], w))]
          /\ IF w = nbytes[p] THEN Log(p, "write", TRUE) ELSE Fault(p, "write")
          /\ IF WriteFailed(w, nbytes[p])
             THEN CopyFailed(p, "could not write to file", WriteErrno(en))
             ELSE Goto(p, "read")
    /\ UNCHANGED <<popvars, archive_directory, dir, ddir, ddata, argvars, fdvars, histvars>>

\* lines 209-215: CloseTransientFile(dstfd); the descriptor is gone either way
CloseDst(p) ==
    /\ pc[p] = "close_dst"
    /\ dstfd' = [dstfd EXCEPT ![p] = -1]
    /\ data' = Collect(data, Live(dir, ddir, srcfd, dstfd'))
    /\ ddata' = Collect(ddata, Live(dir, ddir, srcfd, dstfd'))
    /\ \/ /\ Log(p, "close_dst", TRUE)
          /\ Goto(p, "close_src")
       \/ \E en \in InjectedErrnos :
          /\ Fault(p, "close_dst")
          /\ CopyFailed(p, "could not close file", en)
    /\ UNCHANGED <<popvars, archive_directory, dir, ddir, argvars, leaked, srcfd, offset, nbytes, buf, histvars>>

\* lines 217-225: CloseTransientFile(srcfd), then return true
CloseSrc(p) ==
    /\ pc[p] = "close_src"
    /\ srcfd' = [srcfd EXCEPT ![p] = -1]
    /\ \/ /\ Log(p, "close_src", TRUE)
          /\ Goto(p, AfterCopyFile(TRUE))
       \/ \E en \in InjectedErrnos :
          /\ Fault(p, "close_src")
          /\ CopyFailed(p, "could not close file", en)
    /\ UNCHANGED <<popvars, archive_directory, fsvars, argvars, leaked, dstfd, offset, nbytes, buf, histvars>>

(* ---------------------------- durable_rename --------------------------- *)

\* line 154: what _PG_archive returns for durable_rename's return code
ArchiveReturn(rc) == rc = 0

\* durable_rename has returned rc and _PG_archive returns
Finish(p, rc) ==
    /\ pc' = [pc EXCEPT ![p] = "idle"]
    /\ result' = [result EXCEPT ![p] = IF ArchiveReturn(rc) THEN "success" ELSE "failure"]
    /\ committed' = IF ArchiveReturn(rc) THEN committed \cup {destination[p]} ELSE committed

\* the errno of a call on the name n, which has no file
Missing(n) == IF Lookup(n) # "0" THEN Lookup(n) ELSE "ENOENT"

\* durable_rename logs at WARNING and returns -1
DurableFailed(p, op, msg, en) ==
    /\ IF en \in InjectedErrnos THEN Fault(p, op) ELSE Log(p, op, FALSE)
    /\ warning' = [warning EXCEPT ![p] = [msg |-> msg, errno |-> en]]
    /\ Finish(p, -1)

\* the file of that name is flushed: its contents and metadata are durable
FsyncTemp(p) ==
    /\ pc[p] = "fsync_temp"
    /\ \/ /\ dir[temp[p]] # 0
          /\ ddata' = [ddata EXCEPT ![dir[temp[p]]] = data[dir[temp[p]]]]
          /\ Log(p, "fsync_temp", TRUE)
          /\ Goto(p, "rename")
          /\ UNCHANGED committed
       \/ \E en \in (IF dir[temp[p]] = 0 THEN {Missing(temp[p])} ELSE InjectedErrnos) :
          /\ DurableFailed(p, "fsync_temp", "could not fsync file", en)
          /\ UNCHANGED ddata
    /\ UNCHANGED <<popvars, archive_directory, dir, ddir, data, argvars, fdvars, pre, prev,
                   callno, calls, crashes>>

\* rename(temp, destination): the name changes atomically, in the volatile view
RenameTemp(p) ==
    /\ pc[p] = "rename"
    /\ \/ /\ dir[temp[p]] # 0
          /\ dir' = [dir EXCEPT ![destination[p]] = dir[temp[p]], ![temp[p]] = 0]
          /\ data' = Collect(data, Live(dir', ddir, srcfd, dstfd))
          /\ ddata' = Collect(ddata, Live(dir', ddir, srcfd, dstfd))
          /\ Log(p, "rename", TRUE)
          /\ Goto(p, "fsync_new")
          /\ UNCHANGED committed
       \/ \E en \in (IF dir[temp[p]] = 0 THEN {Missing(temp[p])} ELSE InjectedErrnos) :
          /\ DurableFailed(p, "rename", "could not rename file", en)
          /\ UNCHANGED <<dir, data, ddata>>
    /\ UNCHANGED <<popvars, archive_directory, ddir, argvars, fdvars, pre, prev,
                   callno, calls, crashes>>

\* the renamed file is flushed under its new name
FsyncNew(p) ==
    /\ pc[p] = "fsync_new"
    /\ \/ /\ dir[destination[p]] # 0
          /\ ddata' = [ddata EXCEPT ![dir[destination[p]]] = data[dir[destination[p]]]]
          /\ Log(p, "fsync_new", TRUE)
          /\ Goto(p, "fsync_dir")
          /\ UNCHANGED committed
       \/ \E en \in (IF dir[destination[p]] = 0 THEN {Missing(destination[p])} ELSE InjectedErrnos) :
          /\ DurableFailed(p, "fsync_new", "could not fsync file", en)
          /\ UNCHANGED ddata
    /\ UNCHANGED <<popvars, archive_directory, dir, ddir, data, argvars, fdvars, pre, prev,
                   callno, calls, crashes>>

\* the containing directory is flushed: its entries are durable
FsyncDir(p) ==
    /\ pc[p] = "fsync_dir"
    /\ \/ /\ ddir' = [n \in FsNames |->
                        IF ParentOf(n) = ParentOf(destination[p]) THEN dir[n] ELSE ddir[n]]
          /\ data' = Collect(data, Live(dir, ddir', srcfd, dstfd))
          /\ ddata' = Collect(ddata, Live(dir, ddir', srcfd, dstfd))
          /\ Log(p, "fsync_dir", TRUE)
          /\ Finish(p, 0)
          /\ UNCHANGED warning
       \/ \E en \in InjectedErrnos :
          /\ DurableFailed(p, "fsync_dir", "could not fsync file", en)
          /\ UNCHANGED <<ddir, data, ddata>>
    /\ UNCHANGED <<popvars, archive_directory, dir, argvars, fdvars, pre, prev,
                   callno, calls, crashes>>

(* -------------------------------- crash --------------------------------- *)

Running(p) == pc[p] \notin {"idle", "off"}

\* the lengths a file may have after a crash: what was flushed, what was
\* written, or a length in between
SurvivingLength(i, part) ==
    NBytes(ddata[i]) + (part * (NBytes(data[i]) - NBytes(ddata[i]))) \div 2

SurvivingLengths(i) == {SurvivingLength(i, part) : part \in {0, 1, 2}}

\* Power loss or termination of the processes.  Each directory entry is the
\* durable or the volatile one, each file keeps its flushed bytes and may keep
\* some of the bytes written after; open descriptors are gone.
Crash ==
    /\ crashes < MaxCrashes
    /\ crashes' = crashes + 1
    /\ \E kept \in SUBSET {n \in FsNames : dir[n] # ddir[n]} :
       \E part \in [{i \in Inodes : data[i] # ddata[i]} -> {0, 1, 2}] :
          /\ dir' = [n \in FsNames |-> IF n \in kept THEN dir[n] ELSE ddir[n]]
          /\ data' = Collect([i \in Inodes |->
                                 IF i \in DOMAIN part
                                 THEN Take(data[i], SurvivingLength(i, part[i]))
                                 ELSE data[i]],
                              {dir'[n] : n \in FsNames})
    /\ ddir' = dir'
    /\ ddata' = data'
    /\ pc' = [p \in Procs |-> IF Running(p) THEN "idle" ELSE pc[p]]
    /\ result' = [p \in Procs |-> IF Running(p) THEN "killed" ELSE result[p]]
    /\ events' = [p \in Procs |-> IF Running(p)
                                  THEN Append(events[p], Ev(pc[p], FALSE, TRUE))
                                  ELSE events[p]]
    /\ srcfd' = [p \in Procs |-> -1]
    /\ dstfd' = [p \in Procs |-> -1]
    /\ leaked' = [p \in Procs |-> [i \in Inodes |-> 0]]
    /\ UNCHANGED <<popvars, archive_directory, argvars, offset, nbytes, buf, warning,
                   pre, prev, callno, calls, committed>>

(* ---------------------------- specification ----------------------------- *)

\* the steps of an invocation that has passed the two checks at its entry,
\* up to the first read of copy_file
Proceed(p) ==
    \/ StatDestination(p)
    \/ UnlinkTemp(p)
    \/ OpenSrc(p)
    \/ OpenDst(p)
    \/ ReadChunk(p)

\* the steps that follow a read that succeeded
Beyond(p) ==
    \/ WriteChunk(p)
    \/ CloseDst(p)
    \/ CloseSrc(p)
    \/ FsyncTemp(p)
    \/ RenameTemp(p)
    \/ FsyncNew(p)
    \/ FsyncDir(p)

\* where the steps of Beyond start
BeyondPcs == {"write", "close_dst", "close_src", "fsync_temp", "rename",
              "fsync_new", "fsync_dir"}

Step(p) ==
    \/ ArchiveNotConfigured(p)
    \/ ArchivePathTooLong(p)
    \/ ArchiveStart(p)
    \/ Proceed(p)

Next == (\E p \in Procs : Step(p)) \/ Crash

Spec == Init /\ [][Next]_vars

(* -------------------------- pg_popcount_avx512 -------------------------- *)

\* sizeof(__m512i)
SizeofM512i == 64

\* the buffers it is given: MaxBlocks blocks and all but one byte of another,
\* of all zeros, all ones, ascending bytes and mixed bytes
PopBufLen == MaxBlocks * SizeofM512i + (SizeofM512i - 1)
PopBufs ==
    {[i \in 1..PopBufLen |-> (ab[1] * i + ab[2]) % 256] :
        ab \in {<<0, 0>>, <<0, 255>>, <<1, 0>>, <<37, 11>>}}

\* the 1-bits of one byte
RECURSIVE BitCount(_)
BitCount(b) == IF b = 0 THEN 0 ELSE (b % 2) + BitCount(b \div 2)

\* the 1-bits of the count bytes of b that follow its first off bytes
RECURSIVE SumBits(_, _, _)
SumBits(b, off, count) ==
    IF count <= 0 THEN 0
    ELSE BitCount(b[off + count]) + SumBits(b, off, count - 1)

\* _mm512_setzero_si512()
SetZero == [lane \in 1..8 |-> 0]

\* _mm512_loadu_si512(buf): the 64 bytes buf points to
LoadU(b, off) == [k \in 1..SizeofM512i |-> b[off + k]]

\* _mm512_popcnt_epi64(val): the 1-bits of each 64-bit lane
PopcntEpi64(val) == [lane \in 1..8 |-> SumBits(val, 8 * (lane - 1), 8)]

\* _mm512_add_epi64(a, b)
AddEpi64(a, b) == [lane \in 1..8 |-> a[lane] + b[lane]]

\* _mm512_reduce_add_epi64(a)
RECURSIVE ReduceAdd(_, _)
ReduceAdd(a, lanes) == IF lanes = 0 THEN 0 ELSE a[lanes] + ReduceAdd(a, lanes - 1)

\* pg_popcount_fast(buf, bytes): the 1-bits of the bytes bytes at buf
pg_popcount_fast(b, off, count) == SumBits(b, off, count)

\* buf left where it was
AdvanceBuf_stay(off) == off

\* line 42: buf += sizeof(__m512i)
AdvanceBuf(off) == off + SizeofM512i

\* line 36: the loop goes on while a whole block is left
BlockLeft(n) == n >= SizeofM512i

\* lines 36-43: one pass of the loop, bytes -= sizeof(__m512i) included
PopcountBlock ==
    /\ pop_pc = "loop"
    /\ BlockLeft(bytes)
    /\ accum' = AddEpi64(accum, PopcntEpi64(LoadU(pop_buf, pop_off)))
    /\ pop_off' = AdvanceBuf(pop_off)
    /\ bytes' = bytes - SizeofM512i
    /\ UNCHANGED <<archvars, pop_pc, pop_buf, pop_len, popcnt, pop_ret>>

\* lines 45-46: the loop is left and the rest is counted by pg_popcount_fast
PopcountReturn ==
    /\ pop_pc = "loop"
    /\ ~BlockLeft(bytes)
    /\ popcnt' = ReduceAdd(accum, 8)
    /\ pop_ret' = popcnt' + pg_popcount_fast(pop_buf, pop_off, bytes)
    /\ pop_pc' = "done"
    /\ UNCHANGED <<archvars, pop_buf, pop_off, bytes, pop_len, accum>>

\* pg_popcount_avx512(buf, bytes) is entered with 0 <= bytes, buf pointing to
\* at least bytes bytes; the archiver is not running
InitPopcount ==
    /\ InitWith({}, {0}, {FALSE}, {FALSE})
    /\ DirNotSpecified(archive_directory)
    /\ pop_pc = "loop"
    /\ pop_buf \in PopBufs
    /\ pop_off = 0
    /\ bytes \in 0..PopBufLen
    /\ pop_len = bytes
    /\ accum = SetZero
    /\ popcnt = 0
    /\ pop_ret = 0

NextPopcount == PopcountBlock \/ PopcountReturn

SpecPopcount == InitPopcount /\ [][NextPopcount]_vars

(* ------------------- the checks on the path length --------------------- *)

\* _PG_archive entered with a path and a file name of the boundary lengths,
\* up to the composition of destination and temp (lines 84-101)
BoundaryNotConfigured(p) ==
    \E path \in BoundaryPaths, file \in BoundaryFiles : NotConfigured(p, path, file)

BoundaryTooLong(p) ==
    \E path \in BoundaryPaths, file \in BoundaryFiles : TooLong(p, path, file)

BoundaryStart(p) ==
    \E path \in BoundaryPaths, file \in BoundaryFiles : Start(p, path, file)

InitPathLength == InitWith({1}, {1}, {FALSE}, {FALSE}) /\ PopcountNotCalled

NextPathLength ==
    \E p \in Procs :
        \/ BoundaryNotConfigured(p)
        \/ BoundaryTooLong(p)
        \/ BoundaryStart(p)

SpecPathLength == InitPathLength /\ [][NextPathLength]_vars

(* ------------------------- no crash, stale file ------------------------ *)

\* the archiver is not interrupted from outside
NextRun == \E p \in Procs : Step(p)

\* an earlier attempt has left a temporary file whose bytes are not the
\* source's
InitStale == InitWith({1}, SrcSizes, {TRUE}, {FALSE}) /\ PopcountNotCalled

SpecStale == InitStale /\ [][NextRun]_vars

SpecRun == Init /\ [][NextRun]_vars

(* ------------------------ two archiver processes ----------------------- *)

\* a source of two chunks
RaceSizes == {COPY_BUF_SIZE + 1}

\* two processes call _PG_archive with no coordination between them, with
\* archive_directory set and paths that pass the length check; their steps
\* interleave in any order
InitRace ==
    /\ InitWith(Procs, RaceSizes, {FALSE}, {FALSE})
    /\ ~DirNotSpecified(archive_directory)
    /\ PopcountNotCalled

NextRace == \E p \in Procs : ArchiveStart(p) \/ Proceed(p)

SpecRace == InitRace /\ [][NextRace]_vars

(* ------------------------------ reachability --------------------------- *)

\* No invocation gets past the first read of copy_file and none returns
\* success: with path a regular file the stat of line 107 fails, with no file
\* at path the open of line 164 does, with path a directory the read of line
\* 184 does.  It is an invariant of every specification of the archiver.
NothingBeyond ==
    \A p \in Procs :
        /\ pc[p] \notin BeyondPcs
        /\ result[p] # "success"
        /\ \A i \in 1..Len(events[p]) :
              events[p][i].op \in {"config", "pathlen", "stat", "unlink",
                                   "open_src", "open_dst", "read"}
        /\ \A i \in Inodes : i > 4 => data[i] = << >>

(* ------------------------------- claims -------------------------------- *)

\* the final names: everything _PG_archive may be asked to create
FinalNames == {Destination(d, f) : d \in DirNames, f \in FileNames}

Returned(p) == pc[p] = "idle" /\ result[p] \in {"success", "failure"}

NoFault(p) == \A i \in 1..Len(events[p]) : ~events[p][i].inj

LastEvent(p) == events[p][Len(events[p])]

CommitOps == {"fsync_temp", "rename", "fsync_new", "fsync_dir"}

\* C1: an invocation that archives a regular file, with archive_directory
\* set and a path that passes the length check, and in which the environment
\* made no call fail, has returned success when it has returned, and the file
\* under the final name holds exactly the bytes of the source, whatever the
\* source's size.
C1_RoundTrip ==
    \A p \in Procs :
        (/\ Returned(p)
         /\ events[p] # << >>
         /\ events[p][1].op = "stat"
         /\ NoFault(p)
         /\ dir[src(p)] # 0
         /\ ~IsDirectory(dir[src(p)]))
        => /\ result[p] = "success"
           /\ dir[destination[p]] # 0
           /\ data[dir[destination[p]]] = data[dir[src(p)]]

\* the files as the processes see them are the same after the step
SameFiles ==
    \A n \in FsNames :
        /\ dir'[n] = dir[n]
        /\ ddir'[n] = ddir[n]
        /\ dir[n] # 0 => data'[dir[n]] = data[dir[n]]

\* C4: when the destination exists, entering _PG_archive changes no file, and
\* the stat step ends the call with failure and changes no file; the failure
\* is the "already exists" one whenever stat() found the file (returned 0).
C4_ConflictRefused ==
    [][\A p \in Procs :
          /\ (pc[p] = "idle" /\ pc'[p] = "stat") => SameFiles
          /\ (pc[p] = "stat" /\ dir[destination[p]] # 0 /\ events'[p] # events[p]
                /\ crashes' = crashes)
             => /\ pc'[p] = "idle"
                /\ result'[p] = "failure"
                /\ SameFiles
                /\ events'[p][Len(events'[p])].ok
                      => warning'[p].msg = "archive file already exists"]_vars

\* a call for a segment whose file is in the directory already was refused,
\* and the file, its name and the rest of the directory are as they were
C4_Witness ==
    /\ Returned(1)
    /\ result[1] = "failure"
    /\ warning[1].msg = "archive file already exists"
    /\ events[1] = <<Ev("stat", TRUE, FALSE)>>
    /\ dir[destination[1]] = 4
    /\ data[4] = Whole("old", 1)
    /\ dir = pre[1]

\* p's invocation has returned failure
Failed(p) == pc[p] = "idle" /\ result[p] = "failure"

C9_NoHandleLeak ==
    \A p \in Procs :
        (pc[p] \in {"idle"} \cup CommitOps /\ result[p] # "killed")
            => \A i \in Inodes : Leak(p)[i] = 0

\* the path the claim composes: a name inside the configured directory
InArchiveDirectory(name) == archive_directory \o "/" \o name

\* the names that have a file now and had none when p's invocation began
NewFiles(p) == {n \in FsNames : dir[n] # 0 /\ pre[p][n] = 0}

\* C11: while an invocation runs, its temporary path is the reserved name
\* inside archive_directory, its final path is archive_directory/file and the
\* file it reads is path; a file it creates is under one of these two names;
\* and when it has returned success the one new file is archive_directory/file.
C11_PathsInArchiveDirectory ==
    \A p \in Procs :
        /\ Running(p) =>
              /\ temp[p] = InArchiveDirectory(TEMP_FILE_NAME)
              /\ destination[p] = InArchiveDirectory(args[p].file)
              /\ src(p) = args[p].path
        /\ (Running(p) /\ crashes = 0) =>
              NewFiles(p) \subseteq {InArchiveDirectory(TEMP_FILE_NAME),
                                     InArchiveDirectory(args[p].file)}
        /\ (pc[p] = "idle" /\ result[p] = "success" /\ crashes = 0) =>
              NewFiles(p) = {InArchiveDirectory(args[p].file)}

\* the step is one of p's invocation, not a crash
StepOf(p) == events'[p] # events[p] /\ crashes' = crashes

\* the step opens no file: the descriptors open in the process of p are the
\* same after it, and none of them is one of the invocation
NothingOpened(p) == Leak(p)' = Leak(p) /\ srcfd'[p] = -1 /\ dstfd'[p] = -1

\* C12: the checks are made in the order configuration, path length, stat of
\* the final path, unlink of the temporary path, and the first that fails ends
\* the call with failure: the entry of _PG_archive touches no file and reports
\* the configuration failure before the path-length one; the stat is the first
\* file system call and its failure leaves every file as it was, the temporary
\* one included, with nothing opened; the unlink is second and is made only
\* after a stat that found no file; a file is opened only after an unlink
\* that did not fail.
C12_PreconditionOrder ==
    /\ [](\A p \in Procs :
            \A i \in 1..Len(events[p]) :
                LET e == events[p]
                IN  /\ e[i].op \in {"config", "pathlen"} => Len(e) = 1
                    /\ e[i].op = "stat" => i = 1
                    /\ e[i].op = "unlink" => i = 2 /\ e[1] = Ev("stat", FALSE, FALSE)
                    /\ e[i].op = "open_src" =>
                          i = 3 /\ e[2].op = "unlink" /\ ~e[2].inj
                    /\ Phase(e[i].op) \in {"copy", "commit", "renamed"} => i >= 3)
    /\ [][\A p \in Procs :
            /\ callno'[p] # callno[p] =>
                  /\ SameFiles
                  /\ NothingOpened(p)
                  /\ IF archive_directory = ""
                     THEN /\ pc'[p] = "idle" /\ result'[p] = "failure"
                          /\ warning'[p].msg = "archive_directory not specified"
                     ELSE IF PathTooLong(args'[p].path, args'[p].file)
                     THEN /\ pc'[p] = "idle" /\ result'[p] = "failure"
                          /\ warning'[p].msg = "archive destination path too long"
                     ELSE pc'[p] = "stat"
            /\ (pc[p] = "stat" /\ StepOf(p)) =>
                  /\ SameFiles
                  /\ NothingOpened(p)
                  /\ pc'[p] \in {"idle", "unlink"}
                  /\ pc'[p] = "idle" => result'[p] = "failure"
                  /\ pc'[p] = "unlink" => dir[destination[p]] = 0
            /\ (pc[p] = "unlink" /\ StepOf(p)) =>
                  /\ NothingOpened(p)
                  /\ pc'[p] \in {"idle", "open_src"}
                  /\ pc'[p] = "idle" =>
                        /\ result'[p] = "failure"
                        /\ warning'[p].msg = "could not unlink file"]_vars

\* the stat failed with a temporary file of an earlier attempt in place, and
\* the file is still there
C12_Witness ==
    /\ Returned(1)
    /\ result[1] = "failure"
    /\ events[1] = <<Ev("stat", FALSE, TRUE)>>
    /\ warning[1].msg = "could not stat file"
    /\ pre[1][temp[1]] # 0
    /\ dir[temp[1]] = pre[1][temp[1]]

\* the string with its terminator fits a buffer of MAXPGPATH bytes
FitsBuffer(str) == strlen(str) + 1 <= MAXPGPATH

\* both composed paths fit
BothFit(path, file) ==
    /\ FitsBuffer(path \o "/" \o file)
    /\ FitsBuffer(path \o "/" \o TEMP_FILE_NAME)

\* p's invocation was ended by the path-length check
RejectedTooLong(p) ==
    /\ pc[p] = "idle"
    /\ result[p] = "failure"
    /\ warning[p].msg = "archive destination path too long"

\* C13: with archive_directory set, an invocation is let through the
\* path-length check exactly when both composed paths, terminator included,
\* fit MAXPGPATH bytes, and is ended with the path-too-long failure otherwise;
\* the paths of an invocation let through are not truncated; and the step
\* that ends an invocation with that failure changes no file.
C13_PathLengthBoundary ==
    /\ [](\A p \in Procs :
            (callno[p] > 0 /\ archive_directory # "") =>
                /\ BothFit(args[p].path, args[p].file) <=> pc[p] = "stat"
                /\ ~BothFit(args[p].path, args[p].file) <=> RejectedTooLong(p)
                /\ pc[p] = "stat" =>
                      /\ destination[p] = args[p].path \o "/" \o args[p].file
                      /\ temp[p] = args[p].path \o "/" \o TEMP_FILE_NAME)
    /\ [][\A p \in Procs :
            (callno'[p] # callno[p] /\ RejectedTooLong(p)') => SameFiles]_vars

\* the 1-bits among the first n bytes of b, counted bit by bit
OnesIn(b, n) ==
    Cardinality({ik \in (1..n) \X (0..7) : (b[ik[1]] \div (2 ^ ik[2])) % 2 = 1})

\* C15: pg_popcount_avx512(buf, bytes) returns the number of 1-bits of the
\* first bytes bytes of buf; while it loops, what is counted and what is left
\* add up to bytes, whole blocks only have been counted, and accum holds the
\* 1-bits of exactly these; pg_popcount_fast is given the bytes mod 64 bytes
\* that follow the bytes div 64 blocks.
C15_PopcountExact ==
    /\ pop_pc \in {"loop", "done"} =>
          /\ pop_off + bytes = pop_len
          /\ pop_off % SizeofM512i = 0
          /\ ReduceAdd(accum, 8) = OnesIn(pop_buf, pop_off)
    /\ pop_pc = "done" =>
          /\ pop_off = SizeofM512i * (pop_len \div SizeofM512i)
          /\ bytes = pop_len % SizeofM512i
          /\ popcnt = OnesIn(pop_buf, pop_off)
          /\ pop_ret = OnesIn(pop_buf, pop_len)

\* a buffer of mixed bytes, of more than one block and a rest, shorter than
\* what buf points to, has been counted
C15_Witness ==
    /\ pop_pc = "done"
    /\ pop_len > SizeofM512i
    /\ pop_len % SizeofM512i # 0
    /\ pop_len < Len(pop_buf)
    /\ pop_ret > pop_len
    /\ pop_ret < 8 * pop_len
    /\ popcnt < pop_ret

\* the contents c hold a byte of the file left by the earlier attempt
HasStaleByte(c) == \E i \in 1..Len(c) : c[i].org = "stale"

\* C16: with a temporary file of other contents left by an earlier attempt,
\* the file is gone when the copy starts; an unlink that found no file does
\* not end the call, any other failure of the unlink ends it with failure as
\* its second and last step, with nothing opened; the file the invocation
\* writes is the one it created, empty when created and never holding a byte
\* of the stale file; and no file under a final name holds such a byte.
C16_StaleTempRemoved ==
    /\ [](\A p \in Procs :
            /\ pc[p] \in {"open_src", "open_dst"} => dir[temp[p]] = 0
            /\ (events[p] # << >> /\ LastEvent(p).op = "unlink") =>
                  /\ LastEvent(p) = Ev("unlink", FALSE, FALSE) => pc[p] = "open_src"
                  /\ LastEvent(p).ok => pc[p] = "open_src"
                  /\ LastEvent(p).inj =>
                        /\ pc[p] = "idle" /\ result[p] = "failure"
                        /\ Len(events[p]) = 2
                        /\ srcfd[p] = -1 /\ dstfd[p] = -1
            /\ dstfd[p] # -1 =>
                  /\ dstfd[p] = NewIno(p)
                  /\ ~HasStaleByte(data[dstfd[p]])
                  /\ LastOp(p) = "open_dst" => data[dstfd[p]] = << >>
            /\ \A n \in FinalNames :
                  /\ dir[n] # 0 => ~HasStaleByte(data[dir[n]])
                  /\ ddir[n] # 0 => ~HasStaleByte(ddata[ddir[n]]))
    /\ [][\A p \in Procs :
            (pc[p] = "unlink" /\ pc'[p] = "open_src" /\ dir[temp[p]] # 0)
                => dir'[temp[p]] = 0 /\ events'[p][2] = Ev("unlink", TRUE, FALSE)]_vars

\* the stale file was unlinked, and the temporary file the invocation then
\* created is a new, empty one
C16_Witness ==
    /\ callno[1] = 1
    /\ pc[1] = "read"
    /\ pre[1][temp[1]] = 2
    /\ events[1][2] = Ev("unlink", TRUE, FALSE)
    /\ dir[temp[1]] = NewIno(1)
    /\ dstfd[1] = NewIno(1)
    /\ data[NewIno(1)] = << >>
    /\ \A n \in FsNames : dir[n] # 2

\* C17: when a file is under the temporary path as the invocation opens it,
\* the open fails with EEXIST and the invocation returns failure; the step
\* changes no name and no byte of any file, the existing one included, and
\* leaves the invocation without a descriptor for it; the failed open is the
\* invocation's last step, so nothing is written or renamed after it.
C17_ExclusiveCreate ==
    /\ [](\A p \in Procs :
            (events[p] # << >> /\ LastEvent(p) = Ev("open_dst", FALSE, FALSE)) =>
                /\ pc[p] = "idle"
                /\ result[p] = "failure"
                /\ warning[p] = [msg |-> "could not open file", errno |-> "EEXIST"]
                /\ dstfd[p] = -1)
    /\ [][\A p \in Procs :
            (pc[p] = "open_dst" /\ StepOf(p) /\ dir[temp[p]] # 0) =>
                /\ events'[p] = Append(events[p], Ev("open_dst", FALSE, FALSE))
                /\ SameFiles
                /\ data'[dir[temp[p]]] = data[dir[temp[p]]]
                /\ ddata'[dir[temp[p]]] = ddata[dir[temp[p]]]]_vars

\* process 2 created the temporary file between process 1's unlink and its
\* open: process 1 failed, and the file is still process 2's, open for writing
C17_Witness ==
    /\ Returned(1)
    /\ result[1] = "failure"
    /\ warning[1].errno = "EEXIST"
    /\ events[1][2].op = "unlink"
    /\ ~events[1][2].inj
    /\ dir[temp[1]] = NewIno(2)
    /\ dstfd[2] = NewIno(2)
    /\ pc[2] = "read"

\* the regular file that is archived, and every path that is one of the tree
TheSource == Source(ShortPath)
Sources == Paths \cap FsNames

\* C20: the source keeps its name, its file and its bytes through every step
\* of every invocation, as processes see it and on stable storage, and so
\* does every path a request may name as its source (the directory too);
\* what is open as srcfd is the file the path names, which is never open as
\* dstfd, the descriptor that is written, and the source path is neither the
\* temporary nor the final path.
C20_SourceUntouched ==
    /\ [](/\ dir[TheSource] = 1
          /\ ddir[TheSource] = 1
          /\ \E size \in SrcSizes : data[1] = Whole(TheSource, size)
          /\ ddata[1] = data[1]
          /\ \A p \in Procs :
                /\ srcfd[p] # -1 => srcfd[p] = dir[src(p)]
                /\ \A n \in Sources : dstfd[p] # dir[n]
                /\ Running(p) => src(p) \notin {temp[p], destination[p]})
    /\ [][\A n \in Sources :
              /\ dir'[n] = dir[n]
              /\ ddir'[n] = ddir[n]
              /\ dir[n] # 0 => /\ data'[dir[n]] = data[dir[n]]
                               /\ ddata'[dir[n]] = ddata[dir[n]]]_vars

\* a call that opened the directory it was given as path and failed at the
\* read, then a call for the regular file, which failed at the stat
C20_Witness ==
    /\ Returned(1)
    /\ callno[1] = 2
    /\ prev[1].phase = "copy"
    /\ leaked[1][3] > 0
    /\ args[1].path = TheSource
    /\ warning[1] = [msg |-> "could not stat file", errno |-> "ENOTDIR"]
    /\ \E size \in SrcSizes : size > COPY_BUF_SIZE /\ data[dir[TheSource]] = Whole(TheSource, size)

====
